---- MODULE Spec2Model ----
(***************************************************************************)
(* Model of src/app.py: a Telegram bot (aiogram dispatcher behind a        *)
(* FastAPI webhook) that collects parent name, phone and child age in a    *)
(* four-step dialogue and stores a booking in a one-table SQLite database. *)
(*                                                                         *)
(* Texts are sequences of one-character strings, so that the regular       *)
(* expressions and string methods of the source are computed, not assumed. *)
(* One step of the model is one update fed to the dispatcher by            *)
(* telegram_webhook: the handler selected by the filters runs to its end   *)
(* or to the first call that raises.  A handler that has statements left   *)
(* to run after an external call (a Bot API call, the INSERT) takes the    *)
(* call that fails while it runs, if any, as its input "fault"; where the  *)
(* call is the handler's last effect its failure changes nothing in the    *)
(* program's state and is not enumerated.                                  *)
(* The created_at column is not modelled (no handler reads it back).       *)
(*                                                                         *)
(* Spec and SpecSolo handle one update at a time.  SpecAwait lets the      *)
(* requests of one user overlap: on_confirm is split at its Bot API calls. *)
(* SpecPhone applies format_phone_to_e164 alone to a set of typed numbers. *)
(***************************************************************************)
EXTENDS Integers, Sequences, FiniteSets, TLC

\* ------------------------------------------------------------- bounds
MaxBookings == 2

\* ------------------------------------------------------ configuration
ADMIN_CHAT_ID == "5778964874"

\* chat ids: the administrator and one other user
OtherUser == "1001"

Users == {ADMIN_CHAT_ID, OtherUser}

\* ------------------------------------------------------- text helpers
Digits == {"0", "1", "2", "3", "4", "5", "6", "7", "8", "9"}

IsSpace(c) == c \in {" ", "\t", "\n"}

\* a decimal digit outside ASCII, written by its code point: ARABIC-INDIC DIGIT
\* SEVEN, one character of the text
ArabicIndicSeven == "U+0667"

\* \d of a str pattern: every Unicode decimal digit
IsDigit(c) == c \in Digits \cup {ArabicIndicSeven}

IsDigitOrPlus(c) == IsDigit(c) \/ c = "+"

RECURSIVE lstrip(_)
lstrip(s) == IF s = <<>> \/ ~IsSpace(Head(s)) THEN s ELSE lstrip(Tail(s))

RECURSIVE rstrip(_)
rstrip(s) == IF s = <<>> \/ ~IsSpace(s[Len(s)]) THEN s
             ELSE rstrip(SubSeq(s, 1, Len(s) - 1))

strip(s) == rstrip(lstrip(s))

\* re.sub(r"\s+", " ", s)
RECURSIVE collapse_ws(_)
collapse_ws(s) ==
    IF s = <<>> THEN <<>>
    ELSE IF IsSpace(Head(s)) THEN <<" ">> \o collapse_ws(lstrip(s))
    ELSE <<Head(s)>> \o collapse_ws(Tail(s))

startswith(s, p) == Len(s) >= Len(p) /\ SubSeq(s, 1, Len(p)) = p

\* first whitespace-separated token of a text
RECURSIVE first_token(_)
first_token(s) == IF s = <<>> \/ IsSpace(Head(s)) THEN <<>>
                  ELSE <<Head(s)>> \o first_token(Tail(s))

\* --------------------------------------------- validation / utilities
NoPhone == <<>>

\* variant: a number typed with +7 is returned as its digits alone
format_phone_digits_only(text) ==
    LET digits == SelectSeq(text, IsDigitOrPlus)
        digits_only == SelectSeq(text, IsDigit)
    IN  IF startswith(digits, <<"+", "7">>) /\ Len(SelectSeq(digits, IsDigit)) = 11
        THEN digits_only
        ELSE IF startswith(digits_only, <<"8">>) /\ Len(digits_only) = 11
        THEN <<"+", "7">> \o Tail(digits_only)
        ELSE NoPhone

format_phone_to_e164(text) ==
    LET digits == SelectSeq(text, IsDigitOrPlus)
        digits_only == SelectSeq(text, IsDigit)
    IN  IF startswith(digits, <<"+", "7">>) /\ Len(SelectSeq(digits, IsDigit)) = 11
        THEN digits
        ELSE IF startswith(digits_only, <<"8">>) /\ Len(digits_only) = 11
        THEN <<"+", "7">> \o Tail(digits_only)
        ELSE NoPhone

DigitOf(n) == CHOOSE c \in Digits : ToString(n) = c

\* f"{datetime.now().timestamp():.6f}".replace(".", "")[-4:] : the last four
\* digits of the clock reading in microseconds
generate_unique_code(micros) ==
    << DigitOf((micros \div 1000) % 10), DigitOf((micros \div 100) % 10),
       DigitOf((micros \div 10) % 10), DigitOf(micros % 10) >>

parent_name_of(text) == collapse_ws(strip(text))

\* variant: only the empty name is rejected
name_rejected_empty_only(name) == Len(name) < 1

name_rejected(name) == Len(name) < 2

phone_rejected(phone_e164) == phone_e164 = NoPhone

child_age_of(text) == strip(text)

\* variant: every age is taken
age_rejected_never(age) == FALSE

age_rejected(age) == Len(age) < 1

\* ----------------------------------------------------------------- DB
\* variant: the name and the age change places in the row
Booking_swapped(code, parent, phone_e164, child_age) ==
    [code |-> code, parent |-> child_age, phone_e164 |-> phone_e164,
     child_age |-> parent]

Booking(code, parent, phone_e164, child_age) ==
    [code |-> code, parent |-> parent, phone_e164 |-> phone_e164,
     child_age |-> child_age]

\* variant: the INSERT stores nothing
insert_booking_dropped(rows, b) == rows

insert_booking(rows, b) == Append(rows, b)

\* variant: the lookup finds nothing
find_by_phone_never(rows, phone_e164) == FALSE

find_by_phone(rows, phone_e164) ==
    \E i \in 1..Len(rows) : rows[i].phone_e164 = phone_e164

count_total(rows) == Len(rows)

\* SELECT ... ORDER BY id DESC
RECURSIVE export_rows(_)
export_rows(rows) == IF rows = <<>> THEN <<>>
                     ELSE <<rows[Len(rows)]>> \o export_rows(SubSeq(rows, 1, Len(rows) - 1))

\* ---------------------------------------------------------------- FSM
NoState == "None"
Form_parent_name == "Form:parent_name"
Form_phone == "Form:phone"
Form_child_age == "Form:child_age"
Form_confirm == "Form:confirm"

Form == {Form_parent_name, Form_phone, Form_child_age, Form_confirm}

EmptyData == [k \in {} |-> <<>>]

\* variant: a key already present keeps its value
update_data_keep(d, key, value) ==
    [k \in DOMAIN d \cup {key} |-> IF k \in DOMAIN d THEN d[k] ELSE value]

\* FSMContext.update_data(key=value)
update_data(d, key, value) ==
    [k \in DOMAIN d \cup {key} |-> IF k = key THEN value ELSE d[k]]

BookingKeys == {"parent", "phone_e164", "child_age"}

\* ------------------------------------------------------------- inputs
Slash(name) == <<"/">> \o name
CmdPing == <<"p", "i", "n", "g">>
CmdStart == <<"s", "t", "a", "r", "t">>
CmdMenu == <<"m", "e", "n", "u">>
CmdStatus == <<"s", "t", "a", "t", "u", "s">>
CmdExport == <<"e", "x", "p", "o", "r", "t">>
CmdCount == <<"c", "o", "u", "n", "t">>

CommandNames == {CmdPing, CmdStart, CmdMenu, CmdStatus, CmdExport, CmdCount}


NameInputs ==
    { <<" ", "A", "n", "n", "a", " ", " ", "I", "v", "a", "n", "o", "v", "a", " ">>,
      <<" ", "A", " ">>,
      <<>> }

PhoneInputs ==
    { <<"8", "9", "9", "9", "1", "2", "3", "4", "5", "6", "7">>,
      <<"+", "7", " ", "9", "9", "9", " ", "1", "2", "3", "-", "4", "5", "-", "6", "7">>,
      <<"8", "9", "9", "9">>,
      <<"a", "b", "c">> }

AgeInputs ==
    { <<" ", "3", " ", "y", "e", "a", "r", "s", " ">>,
      <<" ", " ">> }

FreeTexts == { CmdStart }

\* clock readings, microseconds within the second
ClockReadings == {1234, 11234, 5678}

CallbackData == { <<"signup", "start">>, <<"confirm", "yes">>, <<"confirm", "no">> }

CommandTexts == {Slash(n) : n \in CommandNames}

\* the texts a user sends: any command, or a free text fitting the current step
InputTexts(names, phones, ages) ==
    [st \in {NoState} \cup Form |->
        CommandTexts \cup
        (CASE st = Form_parent_name -> names
           [] st = Form_phone -> phones
           [] st = Form_child_age -> ages
           [] OTHER -> FreeTexts)]

InputsOfState == InputTexts(NameInputs, PhoneInputs, AgeInputs)

\* a second name and a second number, for the runs of one user alone
SoloNameInputs == NameInputs \cup { <<"B", "o">> }

SoloPhoneInputs ==
    PhoneInputs \cup { <<"+", "7", "9", "9", "9", "0", "0", "0", "0", "0", "0", "0">> }

SoloInputsOfState == InputTexts(SoloNameInputs, SoloPhoneInputs, AgeInputs)

\* texts for format_phone_to_e164 alone: a prefix, a subscriber number as it
\* may be typed, and a tail
PhonePrefixes ==
    { <<>>, <<"+", "7">>, <<"8">>, <<"7">>, <<"+", "8">>, <<"+", "7", "+">>,
      <<" ", "+", "7", " ", "(">>, <<"8", "-">> }

PhoneBodies ==
    { <<"9", "9", "9", "1", "2", "3", "4", "5", "6", "7">>,
      <<"9", "9", "9", ")", " ", "1", "2", "3", "-", "4", "5", "-", "6", "7">>,
      <<"9", "9", "9", "1", "2", "3", "4", "5", "6">>,
      <<"9", "9", "9", "1", "2", "3", "4", "5", "6", "+", "7">>,
      <<"9", "9", "9", "1", "2", "3", "4", "5", "6", ArabicIndicSeven>>,
      <<"9", "9", "9", "x", "1", "2", "3", "4", "5", "6", "7">>,
      <<>> }

PhoneTails == { <<>>, <<" ">>, <<"0">>, <<"+">> }

PhoneTexts == {p \o b \o t : p \in PhonePrefixes, b \in PhoneBodies, t \in PhoneTails}

AllTexts == UNION {SoloInputsOfState[st] : st \in DOMAIN SoloInputsOfState}

\* the command a text carries: its first token when that is "/" + a registered name
CommandIn == [t \in AllTexts |->
                 IF \E n \in CommandNames : first_token(t) = Slash(n)
                 THEN Tail(first_token(t)) ELSE <<>>]

\* aiogram Command filter
Command(text, name) == CommandIn[text] = name

\* variant: the handlers of the dialogue's steps are asked before the commands
IsCommand_never(text) == FALSE

\* the command handlers are registered before the handlers of the steps, so a
\* text that carries a registered command never reaches those
IsCommand(text) == CommandIn[text] # <<>>

\* ------------------------------------------------------ message kinds
Msg(to, text, body, ok) == [to |-> to, text |-> text, body |-> body, ok |-> ok]

VARIABLES
    state,      \* MemoryStorage: FSM state per user
    data,       \* MemoryStorage: FSM data per user
    bookings,   \* rows of table bookings, in id order
    update,     \* the update handled last: sender, kind, text or callback data, failing call
    sent,       \* the Bot API calls made while it was handled, in order
    response,   \* the webhook's HTTP status for it
    accepted,   \* history: the fields a user's handlers stored since the user's last restart
    discarded,  \* history: whether the user's last restart dropped a dialogue under way
    review_rows,\* history: the rows inserted for the review the user is looking at
    tasks,      \* on_confirm coroutines suspended in a Bot API call
    normalizer  \* a text, and format_phone_to_e164 applied to it once and twice

vars == <<state, data, bookings, update, sent, response, accepted, discarded,
          review_rows, tasks, normalizer>>

Update(u, kind, text, fault, handler) ==
    [from |-> u, kind |-> kind, text |-> text, fault |-> fault, handler |-> handler]

\* calls: how many times format_phone_to_e164 has been applied, first to raw
\* (giving once), then to its own result (giving twice)
Normalizer(calls, raw, once, twice) ==
    [calls |-> calls, raw |-> raw, once |-> once, twice |-> twice]

InitBot ==
    /\ state = [u \in Users |-> NoState]
    /\ data = [u \in Users |-> EmptyData]
    /\ bookings = <<>>
    /\ update = Update(ADMIN_CHAT_ID, "none", <<>>, "none", "none")
    /\ sent = <<>>
    /\ response = 200
    /\ accepted = [u \in Users |-> EmptyData]
    /\ discarded = [u \in Users |-> FALSE]
    /\ review_rows = [u \in Users |-> 0]
    /\ tasks = {}

Init ==
    /\ InitBot
    /\ normalizer = Normalizer(0, <<>>, NoPhone, NoPhone)

\* ----------------------------------------------------------- handlers
\* telegram_webhook: the calls made for the update and the HTTP status,
\* 200 when feed_update returns and 500 when it raises
Handled(msgs, status) ==
    /\ sent' = msgs
    /\ response' = status
    /\ UNCHANGED <<tasks, normalizer>>

StatusOf(fault) == IF fault = "none" THEN 200 ELSE 500

\* a msg.answer(...) that succeeds unless it is the failing call
Answer(u, text, body, fault) == <<Msg(u, text, body, fault # "reply")>>

\* FSMContext.clear(): state None, data {}
clear_state(st, u) == [st EXCEPT ![u] = NoState]

clear_data(dt, u) == [dt EXCEPT ![u] = EmptyData]

\* history: a restart of u begins; it drops a dialogue when u was in a step
Restart(u) ==
    /\ accepted' = [accepted EXCEPT ![u] = EmptyData]
    /\ discarded' = [discarded EXCEPT ![u] = state[u] # NoState]

\* history: u is shown a review, or leaves the one shown: no row belongs to it
Reviewing(u) == review_rows' = [review_rows EXCEPT ![u] = 0]

\* history: a row is inserted for the review u is looking at
Confirmed(u) == review_rows' = [review_rows EXCEPT ![u] = @ + 1]

ping(u, t) ==
    /\ Command(t, CmdPing)
    /\ Handled(Answer(u, "pong", <<>>, "none"), 200)
    /\ UNCHANGED <<state, data, bookings, accepted, discarded, review_rows>>
    /\ update' = Update(u, "message", t, "none", "ping")

on_start(u, t) ==
    /\ Command(t, CmdStart)
    /\ state' = clear_state(state, u)
    /\ data' = clear_data(data, u)
    /\ Restart(u)
    /\ Reviewing(u)
    /\ Handled(Answer(u, "WELCOME_TEXT", <<"signup:start">>, "none"), 200)
    /\ UNCHANGED bookings
    /\ update' = Update(u, "message", t, "none", "on_start")

on_menu(u, t) ==
    /\ Command(t, CmdMenu)
    /\ state' = clear_state(state, u)
    /\ data' = clear_data(data, u)
    /\ Restart(u)
    /\ Reviewing(u)
    /\ Handled(Answer(u, "WELCOME_TEXT", <<"signup:start">>, "none"), 200)
    /\ UNCHANGED bookings
    /\ update' = Update(u, "message", t, "none", "on_menu")

status_cmd(u, t) ==
    /\ Command(t, CmdStatus)
    /\ Handled(Answer(u, "status", <<count_total(bookings)>>, "none"), 200)
    /\ UNCHANGED <<state, data, bookings, accepted, discarded, review_rows>>
    /\ update' = Update(u, "message", t, "none", "status_cmd")

\* if ADMIN_CHAT_ID and msg.from_user and msg.from_user.id != ADMIN_CHAT_ID
export_denied(u) == ADMIN_CHAT_ID # "" /\ u # ADMIN_CHAT_ID

\* variant: the count is open to everyone
count_denied_never(u) == FALSE

\* if not (msg.from_user and ADMIN_CHAT_ID and msg.from_user.id == ADMIN_CHAT_ID)
count_denied(u) == ~(ADMIN_CHAT_ID # "" /\ u = ADMIN_CHAT_ID)

export_csv(u, t, fault) ==
    /\ Command(t, CmdExport)
    /\ IF export_denied(u)
       THEN /\ fault = "none"
            /\ Handled(Answer(u, "no_permission", <<>>, fault), 200)
       ELSE LET rows == export_rows(bookings)
                doc == Msg(u, "export_document", <<Len(rows), rows>>, fault # "reply")
            IN  \* except Exception: the failure is answered with an error message
                Handled(IF fault = "reply"
                        THEN <<doc, Msg(u, "export_error", <<>>, TRUE)>>
                        ELSE <<doc>>, 200)
    /\ UNCHANGED <<state, data, bookings, accepted, discarded, review_rows>>
    /\ update' = Update(u, "message", t, fault, "export_csv")

count_cmd(u, t) ==
    /\ Command(t, CmdCount)
    /\ IF count_denied(u)
       THEN Handled(Answer(u, "no_permission", <<>>, "none"), 200)
       ELSE Handled(Answer(u, "count", <<count_total(bookings)>>, "none"), 200)
    /\ UNCHANGED <<state, data, bookings, accepted, discarded, review_rows>>
    /\ update' = Update(u, "message", t, "none", "count_cmd")

signup_start(u, cbd, fault) ==
    /\ cbd = <<"signup", "start">>
    /\ Handled(Answer(u, "ask_parent_name", <<>>, fault), StatusOf(fault))
    /\ IF fault = "reply"
       THEN UNCHANGED <<state, accepted, discarded, review_rows>>
       ELSE /\ state' = [state EXCEPT ![u] = Form_parent_name]
            /\ Restart(u)
            /\ Reviewing(u)
    /\ UNCHANGED <<data, bookings>>
    /\ update' = Update(u, "callback_query", cbd, fault, "signup_start")

\* variant: no action is taken for a cancel
is_cancel_never(action) == FALSE

\* if action == "no"
is_cancel(action) == action = "no"

\* variant: the failure of the notification is not caught
notify_error_raised(fault) == fault = "notify"

\* try: await cb.bot.send_message(ADMIN_CHAT_ID, ...) except Exception: logger.error
notify_error_propagates(fault) == FALSE

\* variant: the confirm buttons are handled in every state
confirm_filter_any(st) == TRUE

\* @dp.callback_query(Form.confirm, ...): the StateFilter of on_confirm
confirm_filter(st) == st = Form_confirm

on_confirm(u, cbd, fault, micros) ==
    /\ confirm_filter(state[u])
    /\ cbd[1] = "confirm"
    /\ IF is_cancel(cbd[2])
       THEN /\ fault = "none"
            /\ state' = clear_state(state, u)
            /\ data' = clear_data(data, u)
            /\ Handled(Answer(u, "cancelled", <<>>, fault), 200)
            /\ Reviewing(u)
            /\ UNCHANGED bookings
       ELSE IF ~(BookingKeys \subseteq DOMAIN data[u]) \/ fault = "insert"
       THEN \* KeyError, or sqlite3 raises in insert_booking: nothing catches it
            \* before telegram_webhook
            /\ Handled(<<>>, 500)
            /\ UNCHANGED <<state, data, bookings, review_rows>>
       ELSE LET code == generate_unique_code(micros)
                booking == Booking(code, data[u]["parent"], data[u]["phone_e164"],
                                   data[u]["child_age"])
                success == Msg(u, "confirmed", <<booking.code>>, fault # "reply")
                notify == Msg(ADMIN_CHAT_ID, "new_booking",
                              <<booking.code, booking.parent, booking.phone_e164,
                                booking.child_age>>, fault # "notify")
            IN  /\ Len(bookings) < MaxBookings
                /\ bookings' = insert_booking(bookings, booking)
                /\ IF fault = "reply"
                   THEN /\ Handled(<<success>>, 500)
                        /\ Confirmed(u)
                        /\ UNCHANGED <<state, data>>
                   ELSE IF fault = "notify" /\ notify_error_propagates(fault)
                   THEN /\ Handled(<<success, notify>>, 500)
                        /\ Confirmed(u)
                        /\ UNCHANGED <<state, data>>
                   ELSE /\ Handled(<<success, notify>>, 200)
                        /\ state' = clear_state(state, u)
                        /\ data' = clear_data(data, u)
                        /\ Reviewing(u)
    /\ UNCHANGED <<accepted, discarded>>
    /\ update' = Update(u, "callback_query", cbd, fault, "on_confirm")

on_parent_name(u, t, fault) ==
    /\ state[u] = Form_parent_name
    /\ ~IsCommand(t)
    /\ LET name == parent_name_of(t)
       IN  IF name_rejected(name)
           THEN /\ fault = "none"
                /\ Handled(Answer(u, "bad_name", <<>>, fault), 200)
                /\ UNCHANGED <<state, data, accepted>>
           ELSE /\ data' = [data EXCEPT ![u] = update_data(@, "parent", name)]
                /\ accepted' = [accepted EXCEPT ![u] = update_data(@, "parent", name)]
                /\ Handled(Answer(u, "ask_phone", <<>>, fault), StatusOf(fault))
                /\ state' = IF fault = "reply" THEN state
                            ELSE [state EXCEPT ![u] = Form_phone]
    /\ UNCHANGED <<bookings, discarded, review_rows>>
    /\ update' = Update(u, "message", t, fault, "on_parent_name")

on_phone(u, t, fault) ==
    /\ state[u] = Form_phone
    /\ ~IsCommand(t)
    /\ LET phone_e164 == format_phone_to_e164(t)
       IN  IF phone_rejected(phone_e164)
           THEN /\ fault = "none"
                /\ Handled(Answer(u, "bad_phone", <<>>, fault), 200)
                /\ UNCHANGED <<state, data, accepted>>
           ELSE IF find_by_phone(bookings, phone_e164)
           THEN /\ fault = "none"
                /\ Handled(Answer(u, "already_booked", <<>>, fault), 200)
                /\ UNCHANGED <<state, data, accepted>>
           ELSE /\ data' = [data EXCEPT ![u] = update_data(@, "phone_e164", phone_e164)]
                /\ accepted' = [accepted EXCEPT
                                  ![u] = update_data(@, "phone_e164", phone_e164)]
                /\ Handled(Answer(u, "ask_child_age", <<>>, fault), StatusOf(fault))
                /\ state' = IF fault = "reply" THEN state
                            ELSE [state EXCEPT ![u] = Form_child_age]
    /\ UNCHANGED <<bookings, discarded, review_rows>>
    /\ update' = Update(u, "message", t, fault, "on_phone")

on_child_age(u, t, fault) ==
    /\ state[u] = Form_child_age
    /\ ~IsCommand(t)
    /\ LET age == child_age_of(t)
           d == update_data(data[u], "child_age", age)
       IN  IF age_rejected(age)
           THEN /\ fault = "none"
                /\ Handled(Answer(u, "bad_age", <<>>, fault), 200)
                /\ UNCHANGED <<state, data, accepted, review_rows>>
           ELSE /\ data' = [data EXCEPT ![u] = d]
                /\ accepted' = [accepted EXCEPT ![u] = update_data(@, "child_age", age)]
                /\ IF ~(BookingKeys \subseteq DOMAIN d)
                   THEN \* KeyError while the review text is built
                        /\ fault = "none"
                        /\ Handled(<<>>, 500)
                        /\ UNCHANGED <<state, review_rows>>
                   ELSE /\ Handled(Answer(u, "review",
                                          <<d["parent"], d["phone_e164"], d["child_age"]>>,
                                          fault), StatusOf(fault))
                        /\ state' = IF fault = "reply" THEN state
                                    ELSE [state EXCEPT ![u] = Form_confirm]
                        /\ IF fault = "reply" THEN UNCHANGED review_rows
                           ELSE Reviewing(u)
    /\ UNCHANGED <<bookings, discarded>>
    /\ update' = Update(u, "message", t, fault, "on_child_age")

unknown_message(u, t) ==
    /\ state[u] \notin {Form_parent_name, Form_phone, Form_child_age}
    /\ ~IsCommand(t)
    /\ Handled(Answer(u, "unknown_command", <<>>, "none"), 200)
    /\ UNCHANGED <<state, data, bookings, accepted, discarded, review_rows>>
    /\ update' = Update(u, "message", t, "none", "unknown_message")

\* a callback query no handler's filters accept: feed_update returns UNHANDLED
unhandled_callback(u, cbd) ==
    /\ cbd # <<"signup", "start">>
    /\ ~(confirm_filter(state[u]) /\ cbd[1] = "confirm")
    /\ Handled(<<>>, 200)
    /\ UNCHANGED <<state, data, bookings, accepted, discarded, review_rows>>
    /\ update' = Update(u, "callback_query", cbd, "none", "none")

\* ------------------------------------------------------ specification
SendFaults == {"none", "reply"}

ConfirmFaults == {"none", "insert", "reply", "notify"}

TextsOf(inputs) == UNION {inputs[st] : st \in DOMAIN inputs}

\* the user sends text t: one the inputs offer in the user's current step
Sends(u, t, inputs) == t \in inputs[state[u]]

\* telegram_webhook: one update of user u, its text drawn from inputs, that is
\* no press of a confirm button in Form.confirm
StepOther(u, inputs) ==
    \/ \E t \in TextsOf(inputs) : Sends(u, t, inputs) /\ ping(u, t)
    \/ \E t \in TextsOf(inputs) : Sends(u, t, inputs) /\ on_start(u, t)
    \/ \E t \in TextsOf(inputs) : Sends(u, t, inputs) /\ on_menu(u, t)
    \/ \E t \in TextsOf(inputs) : Sends(u, t, inputs) /\ status_cmd(u, t)
    \/ \E t \in TextsOf(inputs), fault \in SendFaults :
          Sends(u, t, inputs) /\ export_csv(u, t, fault)
    \/ \E t \in TextsOf(inputs) : Sends(u, t, inputs) /\ count_cmd(u, t)
    \/ \E t \in TextsOf(inputs), fault \in SendFaults :
          Sends(u, t, inputs) /\ on_parent_name(u, t, fault)
    \/ \E t \in TextsOf(inputs), fault \in SendFaults :
          Sends(u, t, inputs) /\ on_phone(u, t, fault)
    \/ \E t \in TextsOf(inputs), fault \in SendFaults :
          Sends(u, t, inputs) /\ on_child_age(u, t, fault)
    \/ \E t \in TextsOf(inputs) : Sends(u, t, inputs) /\ unknown_message(u, t)
    \/ \E cbd \in CallbackData, fault \in SendFaults : signup_start(u, cbd, fault)
    \/ \E cbd \in CallbackData : unhandled_callback(u, cbd)

\* telegram_webhook: one update of user u, handled to its end
Step(u, inputs) ==
    \/ StepOther(u, inputs)
    \/ \E cbd \in CallbackData, fault \in ConfirmFaults, micros \in ClockReadings :
          on_confirm(u, cbd, fault, micros)

Next == \E u \in Users : Step(u, InputsOfState)

Spec == Init /\ [][Next]_vars

\* ------------------------------------------- on_confirm, call by call
\* The webhook requests are asyncio tasks of one event loop: a coroutine runs
\* until it awaits a Bot API call, and other updates are handled until the call
\* returns.  The storage is in memory and the INSERT is synchronous, so the
\* filters, get_data, generate_unique_code and insert_booking of on_confirm run
\* without interruption, and so do state.clear() and what follows it.
Task(u, at, row, booking) == [user |-> u, at |-> at, row |-> row, booking |-> booking]

\* a press of "confirm:yes": on_confirm up to its first Bot API call, the reply
confirm_insert(u, micros) ==
    /\ confirm_filter(state[u])
    /\ BookingKeys \subseteq DOMAIN data[u]
    /\ Len(bookings) < MaxBookings
    /\ LET code == generate_unique_code(micros)
           booking == Booking(code, data[u]["parent"], data[u]["phone_e164"],
                              data[u]["child_age"])
       IN  /\ bookings' = insert_booking(bookings, booking)
           /\ tasks' = tasks \cup {Task(u, "reply", Len(bookings) + 1, booking)}
           /\ sent' = <<Msg(u, "confirmed", <<booking.code>>, TRUE)>>
    /\ Confirmed(u)
    /\ update' = Update(u, "callback_query", <<"confirm", "yes">>, "none", "on_confirm")
    /\ UNCHANGED <<state, data, response, accepted, discarded, normalizer>>

\* the reply has returned: on_confirm goes on to the admin notification
confirm_notify(task) ==
    /\ task.at = "reply"
    /\ tasks' = (tasks \ {task}) \cup {[task EXCEPT !.at = "notify"]}
    /\ sent' = <<Msg(ADMIN_CHAT_ID, "new_booking",
                     <<task.booking.code, task.booking.parent, task.booking.phone_e164,
                       task.booking.child_age>>, TRUE)>>
    /\ update' = Update(task.user, "callback_query", <<"confirm", "yes">>, "none",
                        "on_confirm")
    /\ UNCHANGED <<state, data, bookings, response, accepted, discarded, review_rows,
                   normalizer>>

\* the notification has returned or raised: state.clear(), and the request ends
confirm_clear(task) ==
    /\ task.at = "notify"
    /\ tasks' = tasks \ {task}
    /\ state' = clear_state(state, task.user)
    /\ data' = clear_data(data, task.user)
    /\ Reviewing(task.user)
    /\ sent' = <<>>
    /\ response' = 200
    /\ update' = Update(task.user, "callback_query", <<"confirm", "yes">>, "none",
                        "on_confirm")
    /\ UNCHANGED <<bookings, accepted, discarded, normalizer>>

\* one user whose updates are handled concurrently
NextAwait ==
    \/ StepOther(OtherUser, InputsOfState)
    \/ \E micros \in ClockReadings :
          on_confirm(OtherUser, <<"confirm", "no">>, "none", micros)
    \/ \E micros \in ClockReadings : confirm_insert(OtherUser, micros)
    \/ \E task \in tasks : confirm_notify(task)
    \/ \E task \in tasks : confirm_clear(task)

SpecAwait == Init /\ [][NextAwait]_vars

\* format_phone_to_e164 alone: applied to a text, then to its own result
InitPhone ==
    /\ InitBot
    /\ \E t \in PhoneTexts : normalizer = Normalizer(0, t, NoPhone, NoPhone)

normalize ==
    /\ normalizer.calls = 0
    /\ normalizer' = [normalizer EXCEPT !.calls = 1,
                                        !.once = format_phone_to_e164(normalizer.raw)]
    /\ UNCHANGED <<state, data, bookings, update, sent, response, accepted, discarded,
                   review_rows, tasks>>

normalize_again ==
    /\ normalizer.calls = 1
    /\ normalizer' = [normalizer EXCEPT !.calls = 2,
                                        !.twice = format_phone_to_e164(normalizer.once)]
    /\ UNCHANGED <<state, data, bookings, update, sent, response, accepted, discarded,
                   review_rows, tasks>>

NextPhone == normalize \/ normalize_again

SpecPhone == InitPhone /\ [][NextPhone]_vars

\* one user alone, with two names and two numbers to choose from
NextSolo == Step(OtherUser, SoloInputsOfState)

SpecSolo == Init /\ [][NextSolo]_vars

\* ------------------------------------------------------------- claims
ConfirmYes == <<"confirm", "yes">>

ConfirmNo == <<"confirm", "no">>

LastRow(rows) == rows[Len(rows)]

AnnaIvanova == <<"A", "n", "n", "a", " ", "I", "v", "a", "n", "o", "v", "a">>

Phone9991234567 == <<"+", "7", "9", "9", "9", "1", "2", "3", "4", "5", "6", "7">>

ThreeYears == <<"3", " ", "y", "e", "a", "r", "s">>

\* the update of the step is a message that is no command
FreeText(upd) == upd.kind = "message" /\ ~IsCommand(upd.text)

\* the update of the step is a press of the given button
Pressed(upd, cbd) == upd.kind = "callback_query" /\ upd.text = cbd

\* C1: no two stored bookings have the same phone identifier.
C1_PhoneUnique ==
    \A i, j \in 1..Len(bookings) :
        i # j => bookings[i].phone_e164 # bookings[j].phone_e164

\* C2: a confirm-action in AwaitingConfirm whose insert succeeds adds exactly one
\* row, and the row's parent, phone and child_age are the values of the user's
\* session: a whitespace-collapsed name, a normalized phone, a trimmed age.
C2_ConfirmStoresSession ==
    [][LET u == update'.from
       IN  ( /\ Pressed(update', ConfirmYes)
             /\ state[u] = Form_confirm
             /\ update'.fault # "insert" ) =>
              /\ BookingKeys \subseteq DOMAIN data[u]
              /\ Len(bookings') = Len(bookings) + 1
              /\ SubSeq(bookings', 1, Len(bookings)) = bookings
              /\ LastRow(bookings').parent = data[u]["parent"]
              /\ LastRow(bookings').phone_e164 = data[u]["phone_e164"]
              /\ LastRow(bookings').child_age = data[u]["child_age"]
              /\ \E t \in SoloNameInputs :
                    LastRow(bookings').parent = collapse_ws(strip(t))
              /\ \E t \in SoloPhoneInputs :
                    LastRow(bookings').phone_e164 = format_phone_to_e164(t)
              /\ \E t \in AgeInputs : LastRow(bookings').child_age = strip(t)
              /\ Len(LastRow(bookings').code) = 4]_vars

\* C2 witness: start, begin, " Anna  Ivanova ", "89991234567", " 3 years ", confirm
\* have left exactly one booking, with the fields of the example.
C2_Witness ==
    /\ Pressed(update, ConfirmYes)
    /\ update.from = OtherUser
    /\ update.fault = "none"
    /\ Len(bookings) = 1
    /\ bookings[1].parent = AnnaIvanova
    /\ bookings[1].phone_e164 = Phone9991234567
    /\ bookings[1].child_age = ThreeYears
    /\ sent[1] = Msg(OtherUser, "confirmed", <<bookings[1].code>>, TRUE)
    /\ state[OtherUser] = NoState

\* C3: once a booking with phone P is stored, a phone-step input of any user whose
\* normalized form is P gets the "already booked" reply and leaves the user in
\* the phone step with the session and the store unchanged.
C3_BookedPhoneRejected ==
    [][LET u == update'.from
           t == update'.text
       IN  ( /\ FreeText(update')
             /\ state[u] = Form_phone
             /\ format_phone_to_e164(t) # NoPhone
             /\ \E i \in 1..Len(bookings) :
                   bookings[i].phone_e164 = format_phone_to_e164(t) ) =>
              /\ sent' = <<Msg(u, "already_booked", <<>>, TRUE)>>
              /\ state'[u] = Form_phone
              /\ data'[u] = data[u]
              /\ bookings' = bookings]_vars

C3_Witness ==
    /\ FreeText(update)
    /\ sent = <<Msg(update.from, "already_booked", <<>>, TRUE)>>
    /\ state[update.from] = Form_phone
    /\ format_phone_to_e164(update.text) = Phone9991234567
    /\ \E i \in 1..Len(bookings) : bookings[i].phone_e164 = Phone9991234567

\* C4: when the insert fails during a confirm-action, the user is sent a failure
\* reply and is no longer in AwaitingConfirm once the update has been handled.
C4_InsertFailureClearsSession ==
    ( Pressed(update, ConfirmYes) /\ update.fault = "insert" ) =>
        /\ state[update.from] # Form_confirm
        /\ \E i \in 1..Len(sent) : sent[i].to = update.from

\* C5: a validation failure at any step (a name shorter than 2 characters after
\* trimming and collapsing, a phone the normalizer rejects, an age empty after
\* trimming) only re-prompts: the user's state, the session's fields and the
\* booking store are unchanged.
C5_ValidationFailureReprompts ==
    [][LET u == update'.from
           t == update'.text
       IN  FreeText(update') =>
              /\ ( state[u] = Form_parent_name /\ Len(collapse_ws(strip(t))) < 2 ) =>
                    /\ sent' = <<Msg(u, "bad_name", <<>>, TRUE)>>
                    /\ UNCHANGED <<state, data, bookings>>
              /\ ( state[u] = Form_phone /\ format_phone_to_e164(t) = NoPhone ) =>
                    /\ sent' = <<Msg(u, "bad_phone", <<>>, TRUE)>>
                    /\ UNCHANGED <<state, data, bookings>>
              /\ ( state[u] = Form_child_age /\ Len(strip(t)) = 0 ) =>
                    /\ sent' = <<Msg(u, "bad_age", <<>>, TRUE)>>
                    /\ UNCHANGED <<state, data, bookings>>]_vars

\* C5 witness: a one-letter name has been re-prompted while the store and the
\* other user's session hold data.
C5_Witness ==
    /\ FreeText(update)
    /\ update.text = <<" ", "A", " ">>
    /\ sent = <<Msg(update.from, "bad_name", <<>>, TRUE)>>
    /\ state[update.from] = Form_parent_name
    /\ bookings # <<>>

\* C6: a cancel-action in AwaitingConfirm leaves the stored bookings (and so
\* their count) unchanged, clears the session and returns the user to Idle.
C6_CancelKeepsStore ==
    [][LET u == update'.from
       IN  ( Pressed(update', ConfirmNo) /\ state[u] = Form_confirm ) =>
              /\ bookings' = bookings
              /\ count_total(bookings') = count_total(bookings)
              /\ state'[u] = NoState
              /\ data'[u] = EmptyData
              /\ sent' = <<Msg(u, "cancelled", <<>>, TRUE)>>]_vars

C6_Witness ==
    /\ Pressed(update, ConfirmNo)
    /\ sent = <<Msg(update.from, "cancelled", <<>>, TRUE)>>
    /\ state[update.from] = NoState
    /\ data[update.from] = EmptyData
    /\ bookings # <<>>

C8_CodeUnique ==
    \A i, j \in 1..Len(bookings) : i # j => bookings[i].code # bookings[j].code

\* C9: a count or export command of a user who is not the administrator is
\* answered with the permission-denied message alone, which carries neither the
\* count nor a row, whatever the store holds.
C9_NonAdminDenied ==
    ( /\ update.kind = "message"
      /\ update.from # ADMIN_CHAT_ID
      /\ Command(update.text, CmdCount) \/ Command(update.text, CmdExport) ) =>
        sent = <<Msg(update.from, "no_permission", <<>>, TRUE)>>

C9_Witness ==
    /\ update.kind = "message"
    /\ update.from = OtherUser
    /\ Command(update.text, CmdCount)
    /\ sent = <<Msg(OtherUser, "no_permission", <<>>, TRUE)>>
    /\ bookings # <<>>

\* C10: a failure of the admin notification during a confirm-action does not
\* propagate: the booking is stored, the success reply was sent, the session is
\* cleared to Idle, the webhook answers 200, and the notification was tried once.
C10_NotifyFailureSwallowed ==
    [][LET u == update'.from
       IN  ( /\ Pressed(update', ConfirmYes)
             /\ state[u] = Form_confirm
             /\ update'.fault = "notify" ) =>
              /\ Len(bookings') = Len(bookings) + 1
              /\ LastRow(bookings').phone_e164 = data[u]["phone_e164"]
              /\ Len(sent') = 2
              /\ sent'[1] = Msg(u, "confirmed", <<LastRow(bookings').code>>, TRUE)
              /\ sent'[2].to = ADMIN_CHAT_ID
              /\ sent'[2].text = "new_booking"
              /\ ~sent'[2].ok
              /\ state'[u] = NoState
              /\ data'[u] = EmptyData
              /\ response' = 200]_vars

C10_Witness ==
    /\ Pressed(update, ConfirmYes)
    /\ update.fault = "notify"
    /\ Len(sent) = 2
    /\ sent[1].text = "confirmed"
    /\ sent[2].text = "new_booking"
    /\ ~sent[2].ok
    /\ response = 200
    /\ state[update.from] = NoState
    /\ bookings # <<>>

\* "+7" followed by exactly ten ASCII digits
IsE164(p) ==
    /\ Len(p) = 12
    /\ startswith(p, <<"+", "7">>)
    /\ \A i \in 3..12 : p[i] \in Digits

\* C11: the phone normalizer is idempotent on its outputs: normalizing a value it
\* accepted returns that value again.
C11_NormalizerIdempotent ==
    ( normalizer.calls = 2 /\ normalizer.once # NoPhone ) =>
        normalizer.twice = normalizer.once

\* C11 witness: a number typed with the trunk prefix 8 and separators was
\* rewritten by the first call and returned as it was by the second.
C11_Witness ==
    /\ normalizer.calls = 2
    /\ normalizer.raw = <<"8", "-", "9", "9", "9", ")", " ", "1", "2", "3", "-", "4", "5",
                          "-", "6", "7", " ">>
    /\ normalizer.once = Phone9991234567
    /\ normalizer.twice = Phone9991234567

\* C12: every value the normalizer accepts is "+7" followed by exactly ten digits
\* and nothing else.
C12_AcceptedIsCanonical ==
    ( normalizer.calls >= 1 /\ normalizer.once # NoPhone ) => IsE164(normalizer.once)

\* C13: for one review at most one booking is inserted, also when the confirm
\* button is delivered again while the first on_confirm is suspended in its
\* reply, its admin notification or before its session clear.
C13_OneRowPerReview == \A u \in Users : review_rows[u] <= 1

\* C14: when the success reply fails after the insert, the session is cleared all
\* the same: the user is not left in AwaitingConfirm, where a repeated
\* confirm-action would insert a second row.
C14_ReplyFailureClearsSession ==
    ( /\ Pressed(update, ConfirmYes)
      /\ update.handler = "on_confirm"
      /\ update.fault = "reply" ) =>
        state[update.from] # Form_confirm

Welcome(u) == <<Msg(u, "WELCOME_TEXT", <<"signup:start">>, TRUE)>>

\* C15: in every state a start or menu command is handled by the command, not by
\* the state's input handler: the state and the stored fields are cleared, the
\* welcome with the begin button is sent, and the store is unchanged.
C15_StartAlwaysWins ==
    [][LET u == update'.from
           t == update'.text
       IN  ( /\ update'.kind = "message"
             /\ Command(t, CmdStart) \/ Command(t, CmdMenu) ) =>
              /\ state'[u] = NoState
              /\ data'[u] = EmptyData
              /\ sent' = Welcome(u)
              /\ response' = 200
              /\ bookings' = bookings]_vars

\* C15 witness: a start command has ended a dialogue under way while the store
\* holds a booking.
C15_Witness ==
    /\ update.kind = "message"
    /\ Command(update.text, CmdStart)
    /\ discarded[update.from]
    /\ state[update.from] = NoState
    /\ data[update.from] = EmptyData
    /\ sent = Welcome(update.from)
    /\ bookings # <<>>

\* C16: while the user has no active state, the free text "start" (trimmed) is
\* answered with the welcome, exactly as the start command is.
C16_FreeTextStartWelcomes ==
    ( /\ FreeText(update)
      /\ strip(update.text) = CmdStart
      /\ state[update.from] = NoState ) =>
        sent = Welcome(update.from)

\* C17: within a confirm-action the order is persist, success reply, admin
\* notification, session clear: a success reply carries the code of a stored
\* booking, the admin is notified only of a stored booking and only after the
\* reply was delivered, and the session is cleared only after the notification
\* was tried.
C17_ConfirmOrder ==
    /\ \A i \in 1..Len(sent) :
          sent[i].text = "confirmed" =>
             \E r \in 1..Len(bookings) : bookings[r].code = sent[i].body[1]
    /\ \A i \in 1..Len(sent) :
          sent[i].text = "new_booking" =>
             /\ i > 1
             /\ sent[i - 1].text = "confirmed"
             /\ sent[i - 1].ok
             /\ \E r \in 1..Len(bookings) :
                   bookings[r] = Booking(sent[i].body[1], sent[i].body[2],
                                         sent[i].body[3], sent[i].body[4])
    /\ ( /\ Pressed(update, ConfirmYes)
         /\ update.handler = "on_confirm"
         /\ state[update.from] # Form_confirm ) =>
           /\ Len(sent) = 2
           /\ sent[2].text = "new_booking"
           /\ sent[2].to = ADMIN_CHAT_ID

\* C17 witness: a confirm-action ran to its end: row, reply, notification, clear.
C17_Witness ==
    /\ Pressed(update, ConfirmYes)
    /\ update.from = OtherUser
    /\ update.fault = "none"
    /\ Len(sent) = 2
    /\ sent[1] = Msg(OtherUser, "confirmed", <<LastRow(bookings).code>>, TRUE)
    /\ sent[2].text = "new_booking"
    /\ sent[2].ok
    /\ sent[2].body[3] = LastRow(bookings).phone_e164
    /\ state[OtherUser] = NoState
    /\ data[OtherUser] = EmptyData

\* a reply that carries the total count of bookings
CarriesCount(msg) == msg.text \in {"status", "count", "export_document"}

\* C18: the total count is disclosed to the administrator only: no message sent
\* to another user carries it.
C18_CountAdminOnly ==
    \A i \in 1..Len(sent) : sent[i].to # ADMIN_CHAT_ID => ~CarriesCount(sent[i])

\* C19: whenever a user is in AwaitingConfirm, the session holds all three
\* fields: a parent name of at least 2 characters, a phone the normalizer
\* accepted, and a non-empty age; so a confirm-action never fails on a missing
\* field.
C19_ReviewIsComplete ==
    /\ \A u \in Users :
          state[u] = Form_confirm =>
             /\ BookingKeys \subseteq DOMAIN data[u]
             /\ Len(data[u]["parent"]) >= 2
             /\ data[u]["phone_e164"] # NoPhone
             /\ \E t \in PhoneInputs : data[u]["phone_e164"] = format_phone_to_e164(t)
             /\ Len(data[u]["child_age"]) >= 1
    /\ ( /\ Pressed(update, ConfirmYes)
         /\ update.handler = "on_confirm"
         /\ update.fault = "none" ) =>
           response = 200

\* C19 witness: a user is shown the review of a second dialogue, begun after a
\* restart in mid-dialogue.
C19_Witness ==
    /\ update.handler = "on_child_age"
    /\ update.from = OtherUser
    /\ state[OtherUser] = Form_confirm
    /\ discarded[OtherUser]
    /\ data[OtherUser] = accepted[OtherUser]
    /\ data[OtherUser]["parent"] = AnnaIvanova
    /\ data[OtherUser]["phone_e164"] = Phone9991234567
    /\ data[OtherUser]["child_age"] = ThreeYears

\* C20: a press of the confirm or the cancel button while the user is not in
\* AwaitingConfirm is ignored: no booking is inserted, no message is sent, and
\* the state and the stored fields are unchanged.
C20_StrayConfirmIgnored ==
    [][LET u == update'.from
       IN  ( /\ update'.kind = "callback_query"
             /\ update'.text \in {ConfirmYes, ConfirmNo}
             /\ state[u] # Form_confirm ) =>
              /\ bookings' = bookings
              /\ state' = state
              /\ data' = data
              /\ sent' = <<>>]_vars

\* C20 witness: the confirm button was pressed in the name step, with all three
\* fields of an earlier dialogue still stored: nothing was inserted.
C20_Witness ==
    /\ Pressed(update, ConfirmYes)
    /\ update.handler = "none"
    /\ state[update.from] = Form_parent_name
    /\ BookingKeys \subseteq DOMAIN data[update.from]
    /\ bookings = <<>>
    /\ sent = <<>>
====
